---- MODULE Spec2Model ----
(***************************************************************************)
(* CleanMRFCache.py: cleans MRF cache files by oldest access time until    *)
(* the requested free space has been achieved.                             *)
(*                                                                         *)
(* One run of main() is modelled as a state machine.  Strings are          *)
(* sequences of one-character strings so that lower(), strip(), lstrip()   *)
(* and split() are computed, not assumed.  Byte counts are integers; the   *)
(* goal space_to_free is kept as an exact value whole + frac/100, which is *)
(* what the float expression (percentcleanup / 100) * total_disk_space     *)
(* yields for the percentages drawn here (their quotient by 100 is a       *)
(* binary fraction, so the float product is exact).                        *)
(***************************************************************************)
EXTENDS Integers, Sequences, FiniteSets, TLC

\* ------------------------------------------------------------------ bounds
MaxFiles    == 2    \* directory entries seen by one walk
MaxFileSize == 1    \* os.path.getsize results range over 0..MaxFileSize
MaxATime    == 2    \* os.path.getatime results range over 1..MaxATime
MaxDeficit  == 2    \* probed available space is at most MaxDeficit below 2 GB

\* -------------------------------------------------------- program constants
GB == 1000000000
DefaultSize == 2

\* ------------------------------------------------------------------ strings
UpperChars == <<"A","B","C","D","E","F","G","H","I","J","K","L","M",
                "N","O","P","Q","R","S","T","U","V","W","X","Y","Z">>
LowerChars == <<"a","b","c","d","e","f","g","h","i","j","k","l","m",
                "n","o","p","q","r","s","t","u","v","w","x","y","z">>

LowerChar(c) ==
    IF \E i \in 1..26 : UpperChars[i] = c
    THEN LowerChars[CHOOSE i \in 1..26 : UpperChars[i] = c]
    ELSE c

\* str.lower()
Lower(s) == [i \in 1..Len(s) |-> LowerChar(s[i])]

RECURSIVE LStripChar(_, _)
\* str.lstrip(ch) for a one-character argument
LStripChar(s, ch) ==
    IF s # <<>> /\ Head(s) = ch THEN LStripChar(Tail(s), ch) ELSE s

RECURSIVE LStripSpace(_)
LStripSpace(s) ==
    IF s # <<>> /\ Head(s) = " " THEN LStripSpace(Tail(s)) ELSE s

RECURSIVE RStripSpace(_)
RStripSpace(s) ==
    IF s # <<>> /\ s[Len(s)] = " "
    THEN RStripSpace(SubSeq(s, 1, Len(s) - 1))
    ELSE s

\* str.strip()
Strip(s) == RStripSpace(LStripSpace(s))

RECURSIVE SplitAcc(_, _, _)
SplitAcc(s, cur, ch) ==
    IF s = <<>> THEN <<cur>>
    ELSE IF Head(s) = ch THEN <<cur>> \o SplitAcc(Tail(s), <<>>, ch)
    ELSE SplitAcc(Tail(s), Append(cur, Head(s)), ch)

\* str.split(ch): always at least one piece, empty pieces kept
Split(s, ch) == SplitAcc(s, <<>>, ch)

Str_del      == <<"d","e","l">>
Str_mrfcache == <<"m","r","f","c","a","c","h","e">>

Str_scan     == <<"s","c","a","n">>
Str_DeL      == <<"D","e","L">>
Str_delete   == <<"d","e","l","e","t","e">>
Str_Txt      == <<"T","x","t">>
DotMrfcache  == <<".","m","r","f","c","a","c","h","e">>
DotTXT       == <<".","T","X","T">>

\* An optional command-line value: None, or the value wrapped in a sequence.
None    == <<>>
Some(v) == <<v>>

\* ----------------------------------------------------------------- inputs
ModeArgs    == {Str_scan, Str_del, Str_DeL, Str_delete}
ExtArgs     == {None, Some(Str_Txt)}
SizeArgs    == {-1, 0, DefaultSize}
PercentArgs == {None, Some(-1), Some(0), Some(50), Some(150)}

ArgSets == [mode : ModeArgs, ext : ExtArgs, size : SizeArgs,
            percentcleanup : PercentArgs]

\* What GetDiskFreeSpaceExW can write into (total_space, free_space): a small
\* volume of 2*MaxDeficit+1 bytes whose free space is within a byte of
\* MaxDeficit (so half a byte or a byte and a half short of half the volume,
\* or above it), and a 2 GB volume with up to MaxDeficit bytes in use.
SmallTotal == 2 * MaxDeficit + 1
ProbeReadings ==
    {[total |-> SmallTotal, free |-> a] :
        a \in (MaxDeficit - 1)..(MaxDeficit + 1)} \cup
    {[total |-> 2 * GB, free |-> 2 * GB - d] : d \in 0..MaxDeficit}

\* What os.walk and the two stat calls can report for one file: a readable
\* .mrfcache file of any size and access time, a readable .TXT file, a
\* readable file without extension, and a .mrfcache file whose metadata
\* cannot be read (ok = FALSE: getsize/getatime raises).
DirEntries ==
    {[ext |-> DotMrfcache, s |-> z, at |-> t, ok |-> TRUE] :
        z \in 0..MaxFileSize, t \in 1..MaxATime} \cup
    {[ext |-> DotTXT, s |-> MaxFileSize, at |-> 1, ok |-> TRUE],
     [ext |-> <<>>, s |-> MaxFileSize, at |-> 1, ok |-> TRUE],
     [ext |-> DotMrfcache, s |-> 0, at |-> 0, ok |-> FALSE]}

Listings == UNION {[1..n -> DirEntries] : n \in 0..MaxFiles}

\* ------------------------------------------------------------------ state
VARIABLES
    pc,               \* position in main()
    args,             \* parsed command line
    extensions,       \* Cleaner.extensions
    file_info,        \* Cleaner.file_info
    total_disk_space, \* main: total_disk_space
    space_available,  \* main: space_available
    space_to_free,    \* main: space_to_free, as [whole, frac] = whole + frac/100
    process,          \* main: process (the sorted list)
    idx,              \* main: position of the for loop in process
    total_savings,    \* main: total_savings
    out,              \* the kinds of message lines written so far
    printed,          \* the figures written in the summary lines
    exit_code,        \* -1 while running, else the process exit status
    probe_failed,     \* history: the platform could not answer the probe
    probed_available, \* history: space_available as returned by the probe
    scan_calls,       \* history: number of calls of get_file_info
    visited,          \* history: paths written in the per-file line, in order
    remove_calls,     \* history: paths passed to os.remove, in call order
    removed,          \* history: paths os.remove has deleted
    dir,              \* the directory tree, when the model follows it
    run,              \* 1 in the first invocation, 2 in a second one
    prev              \* history: what the first invocation left behind

vars == <<pc, args, extensions, file_info, total_disk_space, space_available,
          space_to_free, process, idx, total_savings, out, printed, exit_code,
          probe_failed, probed_available, scan_calls, visited, remove_calls,
          removed, dir, run, prev>>

Range(q) == {q[i] : i \in DOMAIN q}

RECURSIVE SumSizes(_)
SumSizes(q) == IF q = <<>> THEN 0 ELSE Head(q).s + SumSizes(Tail(q))

\* ------------------------------------------------- main: command line uses
\* `if args.ext:` -- None and the empty string are both false
ExtGiven(a) == a.ext # None /\ a.ext[1] # <<>>

\* extensions = {"mrfcache"}; extensions.update(map(str.strip,
\*                                   args.ext.lower().split(",")))
Extensions(a) ==
    {Str_mrfcache} \cup
    (IF ExtGiven(a)
     THEN {Strip(piece) : piece \in Range(Split(Lower(a.ext[1]), ","))}
     ELSE {})

\* `if args.percentcleanup:` -- the truth value of an optional int
PercentGiven(a) == a.percentcleanup # None /\ a.percentcleanup[1] # 0

\* `1 <= args.percentcleanup <= 100`
PercentValid(p) == 1 <= p /\ p <= 100

\* variant: a prefix test, `args.mode.lower().startswith("del")`
IsDelMode_prefix(a) == SubSeq(Lower(a.mode), 1, 3) = Str_del

\* `args.mode.lower() == "del"`
IsDelMode(a) == Lower(a.mode) = Str_del

\* ------------------------------------------------------ the goal, exactly
\* (percentcleanup / 100) * total_disk_space, as whole + frac/100
PercentOf(p, total) ==
    LET hundreds == total \div 100
        rest     == total % 100
    IN  [whole |-> p * hundreds + (p * rest) \div 100,
         frac  |-> (p * rest) % 100]

\* variant: -size wins over -percentcleanup when it is not the default
SpaceToFree_sizeWins(a, total) ==
    IF PercentGiven(a) /\ a.size = DefaultSize
    THEN [whole |-> a.percentcleanup[1] * (total \div 100)
                    + (a.percentcleanup[1] * (total % 100)) \div 100,
          frac  |-> (a.percentcleanup[1] * (total % 100)) % 100]
    ELSE [whole |-> a.size * GB, frac |-> 0]

\* args.size * 1_000_000_000
SizeGoal(size) == [whole |-> size * GB, frac |-> 0]

SpaceToFree(a, total) ==
    IF PercentGiven(a) THEN PercentOf(a.percentcleanup[1], total)
    ELSE SizeGoal(a.size)

\* avail >= goal for an integer avail and a goal whole + frac/100
GE(avail, goal) ==
    avail > goal.whole \/ (avail = goal.whole /\ goal.frac = 0)

\* variant: `>` for `>=`
AlreadyFree_strict(avail, goal) == avail > goal.whole

\* line 141: `if space_available >= space_to_free:`
AlreadyFree(avail, goal) == GE(avail, goal)

\* variant: `>` for `>=`
GoalReached_strict(avail, goal) == avail > goal.whole

\* line 167: `if space_available >= space_to_free:` after a removal
GoalReached(avail, goal) == GE(avail, goal)

\* variant: `<=` for `<`
GoalMissed_orEqual(avail, goal) == avail <= goal.whole

\* line 176: `if space_available < space_to_free:`
GoalMissed(avail, goal) == ~GE(avail, goal)

\* --------------------------------------------- Cleaner.get_free_disk_space
\* The (total, free) pairs the method can return.  windll missing (any
\* platform but Windows) or the call raising gives (-1, -1) from the except
\* branch.  GetDiskFreeSpaceExW reports failure by returning 0, which the
\* method does not read: the two c_ulonglong(0) buffers are returned as they
\* were initialised.  failed records that the platform did not answer.
ProbeResults ==
    {[total |-> -1, free |-> -1, failed |-> TRUE],
     [total |-> 0, free |-> 0, failed |-> TRUE]} \cup
    {[total |-> r.total, free |-> r.free, failed |-> FALSE] : r \in ProbeReadings}

\* lines 124-130: the two `== -1` tests
ProbeRejected(total, free) == free = -1 \/ total = -1

\* ---------------------------------------------------- Cleaner.get_file_info
\* variant: the extension is compared as written, without lower()
ExtMatches_caseSensitive(ext, exts) == LStripChar(ext, ".") \in exts

\* `ext.lstrip(".").lower() in self.extensions`
ExtMatches(ext, exts) == Lower(LStripChar(ext, ".")) \in exts

RECURSIVE ScanFrom(_, _, _)
\* variant: the first unreadable matching file ends the scan
ScanFrom_stopAtError(listing, i, exts) ==
    IF \A p \in DOMAIN listing : p < i THEN <<>>
    ELSE IF i \in DOMAIN listing /\ ExtMatches(listing[i].ext, exts)
         THEN IF listing[i].ok
              THEN <<[f |-> i, s |-> listing[i].s, at |-> listing[i].at]>>
                   \o ScanFrom(listing, i + 1, exts)
              ELSE <<>>
         ELSE ScanFrom(listing, i + 1, exts)

\* the records appended for the paths i.. of one walk, in walk order; a
\* listing maps the paths present (numbers, in walk order) to what the walk
\* and the stat calls report for them
ScanFrom(listing, i, exts) ==
    IF \A p \in DOMAIN listing : p < i THEN <<>>
    ELSE IF i \in DOMAIN listing /\ ExtMatches(listing[i].ext, exts)
                                 /\ listing[i].ok
         THEN <<[f |-> i, s |-> listing[i].s, at |-> listing[i].at]>>
              \o ScanFrom(listing, i + 1, exts)
         ELSE ScanFrom(listing, i + 1, exts)

\* variant: the result of the scan is not tested
NoFilesFound_never(info) == FALSE

\* line 93 and line 148: `return bool(self.file_info)`, `if not ...`
NoFilesFound(info) == info = <<>>

\* ------------------------------------------------------------ main: sorted
\* x goes after every element whose key is <= its own (a stable sort)
RECURSIVE InsertByAt(_, _)
InsertByAt(q, x) ==
    IF q = <<>> THEN <<x>>
    ELSE IF Head(q).at <= x.at THEN <<Head(q)>> \o InsertByAt(Tail(q), x)
    ELSE <<x>> \o q

\* variant: the list is used in walk order
SortedByAt_walkOrder(q) == q

RECURSIVE SortedByAt(_)
\* sorted(cleaner.file_info, key=lambda x: x["at"])
SortedByAt(q) ==
    IF q = <<>> THEN <<>>
    ELSE InsertByAt(SortedByAt(SubSeq(q, 1, Len(q) - 1)), q[Len(q)])

\* ------------------------------------------------------- main: os.remove
\* os.remove(file_path) either deletes the file or raises OSError (file
\* missing, permission denied, locked); the except branch catches it.
RemoveOutcomes == {"removed", "OSError"}

\* variant: the size is added before os.remove is called
SpaceAfter_always(avail, size, outcome) == avail + size

\* lines 163-164, 170: space_available += size runs only after os.remove
\* returned
SpaceAfter(avail, size, outcome) ==
    IF outcome = "removed" THEN avail + size ELSE avail

\* the paths os.remove has deleted
RemovedAfter(gone, path, outcome) ==
    IF outcome = "removed" THEN gone \cup {path} ELSE gone

\* variant: the break follows every removal, whatever the space reached
BreaksLoop_anyRemoval(outcome, avail, goal) == outcome = "removed"

\* The directory tree is either left to the environment (known = FALSE:
\* each walk reports any listing) or followed (known = TRUE: files maps the
\* paths present to their entries, a walk reports exactly those, and a
\* successful os.remove takes the path out; an OSError leaves the file).
Untracked == [known |-> FALSE, files |-> <<>>]
Tracked(listing) == [known |-> TRUE, files |-> listing]

\* what os.walk and the stat calls can report now
Walks == IF dir.known THEN {dir.files} ELSE Listings

\* line 163: the tree after os.remove(path)
DirAfter(d, path, outcome) ==
    IF d.known /\ outcome = "removed"
    THEN Tracked([p \in DOMAIN d.files \ {path} |-> d.files[p]])
    ELSE d

\* nothing is left behind before the first invocation
NoPrev == [file_info |-> <<>>, removed |-> {}, total |-> 0, free |-> 0,
           failed |-> FALSE]

\* what get_free_disk_space can return now: anything in the first
\* invocation; in a second one, with nothing else touching the volume, the
\* same total and the free space the first invocation ended with
ProbeOutcomes ==
    IF run = 1 THEN ProbeResults
    ELSE {[total |-> prev.total, free |-> prev.free, failed |-> prev.failed]}

\* lines 167-169: the break sits inside the try, after a removal
BreaksLoop(outcome, avail, goal) ==
    outcome = "removed" /\ GoalReached(avail, goal)

\* ------------------------------------------------------------------- Init
\* The state after `cleaner = Cleaner(args.input_path, extensions)`.
InitFrom(argsets, trees) ==
    /\ args \in argsets
    /\ dir \in trees
    /\ run = 1
    /\ prev = NoPrev
    /\ pc = "probe"
    /\ extensions = Extensions(args)
    /\ file_info = <<>>
    /\ total_disk_space = 0
    /\ space_available = 0
    /\ space_to_free = [whole |-> 0, frac |-> 0]
    /\ process = <<>>
    /\ idx = 0
    /\ total_savings = 0
    /\ out = {"Banner"}
    /\ printed = [savings |-> None, freed |-> None]
    /\ exit_code = -1
    /\ probe_failed = FALSE
    /\ probed_available = 0
    /\ scan_calls = 0
    /\ visited = <<>>
    /\ remove_calls = <<>>
    /\ removed = {}

Init == InitFrom(ArgSets, {Untracked})

\* exit(code) after writing the message lines msgs
Exit(code, msgs) ==
    /\ pc' = "exited"
    /\ exit_code' = code
    /\ out' = out \cup msgs

\* lines 122-130: the probe and its two checks
Probe ==
    /\ pc = "probe"
    /\ UNCHANGED <<dir, run, prev>>
    /\ \E r \in ProbeOutcomes :
        /\ total_disk_space' = r.total
        /\ space_available' = r.free
        /\ probe_failed' = r.failed
        /\ probed_available' = r.free
        /\ IF ProbeRejected(r.total, r.free)
           THEN Exit(1, {"ErrProbe"})
           ELSE pc' = "target" /\ UNCHANGED <<exit_code, out>>
    /\ UNCHANGED <<args, extensions, file_info, space_to_free, process, idx,
                   total_savings, printed, scan_calls, visited, remove_calls,
                   removed>>

\* lines 132-139: validate -percentcleanup and compute space_to_free
CalcSpaceToFree ==
    /\ pc = "target"
    /\ UNCHANGED <<dir, run, prev>>
    /\ IF PercentGiven(args) /\ ~PercentValid(args.percentcleanup[1])
       THEN Exit(1, {"ErrPercent"}) /\ UNCHANGED space_to_free
       ELSE /\ space_to_free' = SpaceToFree(args, total_disk_space)
            /\ pc' = "check"
            /\ UNCHANGED <<exit_code, out>>
    /\ UNCHANGED <<args, extensions, file_info, total_disk_space,
                   space_available, process, idx, total_savings, printed,
                   probe_failed, probed_available, scan_calls, visited,
                   remove_calls, removed>>

\* lines 141-146: nothing to do when the space is there already
CheckAvailable ==
    /\ pc = "check"
    /\ UNCHANGED <<dir, run, prev>>
    /\ IF AlreadyFree(space_available, space_to_free)
       THEN Exit(0, {"AlreadyFree"})
       ELSE /\ pc' = "scan"
            /\ out' = out \cup {"Mode"}
            /\ UNCHANGED exit_code
    /\ UNCHANGED <<args, extensions, file_info, total_disk_space,
                   space_available, space_to_free, process, idx, total_savings,
                   printed, probe_failed, probed_available, scan_calls, visited,
                   remove_calls, removed>>

\* lines 148-150 with Cleaner.get_file_info (lines 74-93)
GetFileInfo ==
    /\ pc = "scan"
    /\ UNCHANGED <<dir, run, prev>>
    /\ \E listing \in Walks :
        /\ file_info' = file_info \o ScanFrom(listing, 1, extensions)
        /\ scan_calls' = scan_calls + 1
        /\ IF NoFilesFound(file_info')
           THEN Exit(1, {"Scanning", "ErrNoFiles"})
           ELSE /\ pc' = "sort"
                /\ out' = out \cup {"Scanning"}
                /\ UNCHANGED exit_code
    /\ UNCHANGED <<args, extensions, total_disk_space, space_available,
                   space_to_free, process, idx, total_savings, printed,
                   probe_failed, probed_available, visited, remove_calls,
                   removed>>

\* lines 152-154
SortFiles ==
    /\ pc = "sort"
    /\ UNCHANGED <<dir, run, prev>>
    /\ process' = SortedByAt(file_info)
    /\ total_savings' = 0
    /\ idx' = 1
    /\ pc' = IF process' = <<>> THEN "summary" ELSE "loop"
    /\ UNCHANGED <<args, extensions, file_info, total_disk_space,
                   space_available, space_to_free, out, printed, exit_code,
                   probe_failed, probed_available, scan_calls, visited,
                   remove_calls, removed>>

\* variant: the loop position is not advanced
NextRecord_stay == idx' = idx /\ pc' = "loop"

\* the for loop moves to the next record, or ends after the last one
NextRecord ==
    IF idx < Len(process)
    THEN idx' = idx + 1 /\ pc' = "loop"
    ELSE idx' = idx /\ pc' = "summary"

\* `break`
Break == idx' = idx /\ pc' = "summary"

\* lines 156-171: one iteration of the eviction loop
Visit ==
    /\ pc = "loop"
    /\ LET rec == process[idx] IN
        /\ visited' = Append(visited, rec.f)
        /\ UNCHANGED <<run, prev>>
        /\ total_savings' = total_savings + rec.s
        /\ IF IsDelMode(args)
           THEN \E outcome \in RemoveOutcomes :
                /\ remove_calls' = Append(remove_calls, rec.f)
                /\ removed' = RemovedAfter(removed, rec.f, outcome)
                /\ dir' = DirAfter(dir, rec.f, outcome)
                /\ space_available' = SpaceAfter(space_available, rec.s, outcome)
                /\ out' = out \cup {"File"} \cup
                     (IF outcome # "removed" THEN {"ErrDelete"}
                      ELSE IF GoalReached(space_available', space_to_free)
                           THEN {"Deleted", "RequiredFreed"}
                           ELSE {"Deleted"})
                /\ IF BreaksLoop(outcome, space_available', space_to_free)
                   THEN Break
                   ELSE NextRecord
           ELSE /\ out' = out \cup {"File"}
                /\ NextRecord
                /\ UNCHANGED <<space_available, remove_calls, removed, dir>>
    /\ UNCHANGED <<args, extensions, file_info, total_disk_space, space_to_free,
                   process, printed, exit_code, probe_failed, probed_available,
                   scan_calls>>

\* lines 173-179: the summary; main returns and the process ends with status 0
Summary ==
    /\ pc = "summary"
    /\ UNCHANGED <<dir, run, prev>>
    /\ pc' = "done"
    /\ exit_code' = 0
    /\ IF IsDelMode(args)
       THEN /\ printed' = [savings |-> Some(total_savings),
                           freed |-> Some(space_available)]
            /\ out' = out \cup {"PotentialSavings", "TotalFreed", "Done"} \cup
                      (IF GoalMissed(space_available, space_to_free)
                       THEN {"Unable"} ELSE {})
       ELSE /\ printed' = [savings |-> Some(total_savings), freed |-> None]
            /\ out' = out \cup {"PotentialSavings", "Done"}
    /\ UNCHANGED <<args, extensions, file_info, total_disk_space,
                   space_available, space_to_free, process, idx, total_savings,
                   probe_failed, probed_available, scan_calls, visited,
                   remove_calls, removed>>

Next ==
    \/ Probe
    \/ CalcSpaceToFree
    \/ CheckAvailable
    \/ GetFileInfo
    \/ SortFiles
    \/ Visit
    \/ Summary

Spec == Init /\ [][Next]_vars

\* Runs in percent mode: the accepted percentages whose hundredth is a
\* binary fraction, with every -size.
ExactPercents == {Some(25), Some(50), Some(75), Some(100)}

PercentArgSets == [mode : {Str_scan, Str_del}, ext : {None},
                   size : SizeArgs, percentcleanup : ExactPercents]

PercentInit == InitFrom(PercentArgSets, {Untracked})

PercentSpec == PercentInit /\ [][Next]_vars

\* Runs over a followed tree, for the scan: -ext absent, empty, with blanks
\* and mixed case, and with a trailing comma; files named with the default
\* extension in two spellings, with another listed or unlisted extension,
\* or with none, readable or not.
Str_empty     == <<>>
Str_TxtSpaced == <<" ","T","X","T"," ",","," ","M","r","f","C","a","c","h","e"," ">>
Str_txtComma  == <<"t","x","t",",">>
DotMRFCACHE   == <<".","M","R","F","C","A","C","H","E">>
DotTmp        == <<".","t","m","p">>
NoExt         == <<>>

ScanExtArgs == {None, Some(Str_empty), Some(Str_Txt), Some(Str_TxtSpaced),
                Some(Str_txtComma)}

ScanArgSets == [mode : {Str_scan, Str_DeL}, ext : ScanExtArgs,
                size : {DefaultSize}, percentcleanup : {None}]

ScanEntries ==
    {[ext |-> x, s |-> MaxFileSize, at |-> 1, ok |-> b] :
        x \in {DotMrfcache, DotMRFCACHE, DotTXT, DotTmp, NoExt},
        b \in BOOLEAN}

ScanTrees == UNION {[1..n -> ScanEntries] : n \in 0..MaxFiles}

ScanInit == InitFrom(ScanArgSets, {Tracked(l) : l \in ScanTrees})

ScanSpec == ScanInit /\ [][Next]_vars

\* A second invocation with the same command line after a completed first
\* one, nothing else having touched the tree or the volume in between: the
\* process starts afresh; the tree is what the first invocation left, and
\* the volume has the free space the first invocation ended with (a probe
\* the platform did not answer is not answered now either).
Rerun ==
    /\ pc = "done" /\ run = 1 /\ dir.known
    /\ run' = 2
    /\ prev' = [file_info |-> file_info, removed |-> removed,
                total |-> total_disk_space,
                free |-> IF probe_failed THEN 0 ELSE space_available,
                failed |-> probe_failed]
    /\ pc' = "probe"
    /\ file_info' = <<>>
    /\ total_disk_space' = 0
    /\ space_available' = 0
    /\ space_to_free' = [whole |-> 0, frac |-> 0]
    /\ process' = <<>>
    /\ idx' = 0
    /\ total_savings' = 0
    /\ out' = {"Banner"}
    /\ printed' = [savings |-> None, freed |-> None]
    /\ exit_code' = -1
    /\ probe_failed' = FALSE
    /\ probed_available' = 0
    /\ scan_calls' = 0
    /\ visited' = <<>>
    /\ remove_calls' = <<>>
    /\ removed' = {}
    /\ UNCHANGED <<args, extensions, dir>>

RerunArgSets == [mode : {Str_scan, Str_del}, ext : {None},
                 size : {DefaultSize}, percentcleanup : {None, Some(50)}]

RerunInit == InitFrom(RerunArgSets, {Tracked(l) : l \in Listings})

RerunNext == Next \/ Rerun

RerunSpec == RerunInit /\ [][RerunNext]_vars

TypeOK ==
    /\ pc \in {"probe", "target", "check", "scan", "sort", "loop", "summary",
               "done", "exited"}
    /\ exit_code \in {-1, 0, 1}
    /\ idx \in 0..MaxFiles

\* ======================================================================
\* Properties
\* ======================================================================
\* the scanned record of a path
RecordOf(path) == CHOOSE r \in Range(file_info) : r.f = path

\* access times along a sequence of paths never go down
NonDecreasingAt(paths) ==
    \A i, j \in DOMAIN paths :
        i < j => RecordOf(paths[i]).at <= RecordOf(paths[j]).at

\* the paths of the first n records of the sorted list
SortedPrefix(n) == [i \in 1..n |-> process[i].f]

\* the goal has been computed and the run went on from there
TargetComputed ==
    \/ pc \in {"check", "scan", "sort", "loop", "summary", "done"}
    \/ pc = "exited" /\ out \cap {"ErrProbe", "ErrPercent"} = {}

\* -mode is del, whatever its letter case
ActiveMode == Lower(args.mode) = Str_del

\* bytes actually freed: sizes of the scanned files os.remove has deleted
RECURSIVE FreedIn(_)
FreedIn(q) ==
    IF q = <<>> THEN 0
    ELSE (IF Head(q).f \in removed THEN Head(q).s ELSE 0) + FreedIn(Tail(q))

\* ---------------------------------------------------------------- C1
\* C1: in active mode os.remove is called on a prefix of the sorted list
\* only, the loop is running only while space_available < space_to_free,
\* it ends before the last record only when the removal just made brought
\* space_available to the goal from below it, and every call of os.remove
\* is made in a state where space_available < space_to_free.
C1_StopState ==
    ActiveMode /\ pc \in {"loop", "summary", "done"} =>
        /\ Len(remove_calls) <= Len(process)
        /\ remove_calls = SortedPrefix(Len(remove_calls))
        /\ pc = "loop" =>
              /\ ~GE(space_available, space_to_free)
              /\ Len(remove_calls) = idx - 1
        /\ pc # "loop" /\ Len(remove_calls) < Len(process) =>
              /\ Len(remove_calls) = idx
              /\ process[idx].f \in removed
              /\ GE(space_available, space_to_free)
              /\ ~GE(space_available - process[idx].s, space_to_free)
        /\ pc # "loop" /\ ~GE(space_available, space_to_free) =>
              Len(remove_calls) = Len(process)

C1_EvictionStopsAtGoal ==
    /\ []C1_StopState
    /\ [][remove_calls' # remove_calls =>
            ~GE(space_available, space_to_free)]_vars

\* an active run that met the goal with its first removal and left the
\* second, newer file alone
C1_Witness ==
    /\ ActiveMode /\ pc = "done"
    /\ Len(process) = 2 /\ remove_calls = <<process[1].f>>
    /\ process[1].at < process[2].at
    /\ removed = {process[1].f}

\* ---------------------------------------------------------------- C2
\* C2: the paths written in the per-file line, and the paths passed to
\* os.remove, come in non-decreasing access time; and os.remove is not
\* called on a file while a scanned file with a strictly older access time
\* has not had its call.
C2_OldestFirst ==
    /\ NonDecreasingAt(visited)
    /\ NonDecreasingAt(remove_calls)
    /\ \A k \in DOMAIN remove_calls : \A r \in Range(file_info) :
          r.at < RecordOf(remove_calls[k]).at =>
              \E j \in 1..(k - 1) : remove_calls[j] = r.f

\* the walk found the newer file first, and both files had their os.remove
C2_Witness ==
    /\ Len(file_info) = 2 /\ file_info[1].at > file_info[2].at
    /\ Len(remove_calls) = 2
    /\ remove_calls = <<file_info[2].f, file_info[1].f>>

\* ---------------------------------------------------------------- C3
\* C3: when the probed space_available is >= space_to_free, in either
\* mode, get_file_info is never called, os.remove is never called, and the
\* run ends with exit code 0.
C3_EarlyExit ==
    TargetComputed /\ GE(probed_available, space_to_free) =>
        /\ scan_calls = 0
        /\ file_info = <<>>
        /\ remove_calls = <<>> /\ removed = {}
        /\ pc \in {"check", "exited"}
        /\ pc = "exited" => exit_code = 0 /\ "AlreadyFree" \in out

\* the run ended early with exactly the requested space available
C3_Witness ==
    /\ pc = "exited" /\ exit_code = 0 /\ ActiveMode
    /\ space_to_free.frac = 0 /\ probed_available = space_to_free.whole
    /\ probed_available > 0

\* ---------------------------------------------------------------- C4
\* C4: every supplied -percentcleanup outside 1..100 (0, negative, above
\* 100) makes the run end with exit code 1 before any scan or removal: the
\* run never goes on to compare a goal, and never takes the -size goal.
\* (Stated for runs whose probe was answered.)
C4_PercentRejected ==
    (/\ ~probe_failed
     /\ args.percentcleanup # None
     /\ ~(args.percentcleanup[1] \in 1..100)) =>
        /\ pc \in {"probe", "target", "exited"}
        /\ pc = "exited" => exit_code = 1
        /\ scan_calls = 0 /\ remove_calls = <<>>

\* ---------------------------------------------------------------- C5
\* C5: when -mode is not del (in any letter case), os.remove is never
\* called and space_available keeps its probed value; once the loop is over
\* every scanned record has been visited once, in the sorted order, and the
\* potential savings written in the summary is the sum of the sizes of all
\* scanned records, also when those sizes would have met the goal.
C5_DryRun ==
    ~ActiveMode =>
        /\ remove_calls = <<>> /\ removed = {}
        /\ pc \in {"check", "scan", "sort", "loop", "summary", "done"} =>
              space_available = probed_available
        /\ pc \in {"summary", "done"} =>
              /\ visited = SortedPrefix(Len(process))
              /\ Len(visited) = Len(file_info)
              /\ Range(visited) = {r.f : r \in Range(file_info)}
              /\ total_savings = SumSizes(file_info)
        /\ pc = "done" => printed.savings = Some(SumSizes(file_info))
        /\ "Deleted" \notin out /\ "RequiredFreed" \notin out

\* a finished dry run over two files whose first file alone would have
\* met the goal
C5_Witness ==
    /\ ~ActiveMode /\ pc = "done" /\ args.mode # Str_scan
    /\ Len(process) = 2 /\ process[2].s > 0
    /\ GE(space_available + process[1].s, space_to_free)
    /\ printed.savings = Some(process[1].s + process[2].s)

\* ---------------------------------------------------------------- C6
\* C6: in active mode a call of os.remove that fails leaves
\* space_available (and so the bytes counted as freed) as it was, does not
\* end the process, and the loop goes on with the next record of the sorted
\* list, or to the summary after the last one.
C6_FailedDeleteContinues ==
    [][ActiveMode /\ remove_calls' # remove_calls /\ removed' = removed =>
          /\ space_available' = space_available
          /\ exit_code' = -1 /\ pc' \in {"loop", "summary"}
          /\ total_savings' = total_savings + process[idx].s
          /\ IF idx < Len(process)
             THEN pc' = "loop" /\ idx' = idx + 1
             ELSE pc' = "summary"]_vars

\* the first removal failed on a file of positive size, the second was
\* tried and succeeded
C6_Witness ==
    /\ ActiveMode /\ Len(remove_calls) = 2
    /\ remove_calls[1] \notin removed /\ remove_calls[2] \in removed
    /\ process[1].s > 0
    /\ space_available = probed_available + process[2].s

\* ---------------------------------------------------------------- C7
\* C7: in active mode the figure written as "Total space freed" is the sum
\* of the sizes of the files os.remove deleted in this run.  (Stated for
\* runs whose probe was answered.)
C7_FreedFigure ==
    ActiveMode /\ ~probe_failed /\ pc = "done" => printed.freed = Some(FreedIn(file_info))

\* ---------------------------------------------------------------- C8
\* C8: an active run that went through the eviction loop writes "Required
\* disk space has been freed" exactly when the final space_available is >=
\* space_to_free and "Unable to free the requested space" exactly when it is
\* below: one of the two, never both, never neither.
C8_OneVerdict ==
    ActiveMode /\ pc = "done" =>
        /\ "RequiredFreed" \in out <=> GE(space_available, space_to_free)
        /\ "Unable" \in out <=> ~GE(space_available, space_to_free)
        /\ ("RequiredFreed" \in out) # ("Unable" \in out)

\* a finished active run that met the goal exactly, after a failed removal
C8_Witness ==
    /\ ActiveMode /\ pc = "done"
    /\ "RequiredFreed" \in out /\ "ErrDelete" \in out
    /\ space_to_free.frac = 0 /\ space_available = space_to_free.whole

\* ---------------------------------------------------------------- C9
\* C9: whenever the platform could not answer the probe, the run ends with
\* a non-zero exit code without scanning or removing anything: the values
\* of a failed probe are never used as a (total, available) reading.
C9_ProbeFailureAborts ==
    probe_failed =>
        /\ pc = "exited" /\ exit_code = 1
        /\ scan_calls = 0 /\ remove_calls = <<>>

\* ---------------------------------------------------------------- C10
\* C10: when space_available < space_to_free and the scan collects no
\* record, the run writes the condition and ends with exit code 1, in scan
\* and in del mode alike, without visiting a record or calling os.remove.
C10_NoCandidates ==
    scan_calls > 0 /\ file_info = <<>> =>
        /\ ~GE(probed_available, space_to_free)
        /\ pc = "exited" /\ exit_code = 1 /\ "ErrNoFiles" \in out
        /\ process = <<>> /\ visited = <<>> /\ remove_calls = <<>>
        /\ printed.savings = None

\* an active run whose scan collected nothing
C10_Witness ==
    /\ ActiveMode /\ scan_calls = 1 /\ file_info = <<>>
    /\ pc = "exited" /\ "ErrNoFiles" \in out

\* ---------------------------------------------------------------- C11
\* C11: a run that has entered the eviction loop always has a next step
\* until it is done, every step of the loop moves on in the sorted list or
\* leaves the loop, the step after the loop is the summary, and the run
\* then is over with the potential savings written and exit code 0,
\* whatever removals succeeded or failed and whether the goal was met.
C11_LoopState ==
    /\ pc = "loop" =>
          /\ 1 <= idx /\ idx <= Len(process)
          /\ exit_code = -1
          /\ ENABLED Visit
    /\ pc = "summary" => exit_code = -1 /\ ENABLED Summary
    /\ pc = "done" =>
          /\ exit_code = 0
          /\ {"PotentialSavings", "Done"} \subseteq out
          /\ printed.savings = Some(total_savings)
          /\ Len(visited) >= 1

C11_LoopEndsWithSummary ==
    /\ []C11_LoopState
    /\ [][/\ pc = "loop" =>
               \/ pc' = "loop" /\ idx' = idx + 1
               \/ pc' = "summary"
          /\ pc = "summary" => pc' = "done"]_vars

\* an active run over two files, one removal failed and one succeeded,
\* finished without meeting the goal
C11_Witness ==
    /\ ActiveMode /\ pc = "done" /\ exit_code = 0
    /\ Len(remove_calls) = 2 /\ Cardinality(removed) = 1
    /\ "Unable" \in out /\ "ErrDelete" \in out

\* ---------------------------------------------------------------- C16
\* C16: in active mode no path is passed to os.remove twice, the calls
\* follow the sorted list without a gap, and a run whose loop is over with
\* space_available still below space_to_free has called os.remove exactly
\* once on every scanned record.
C16_ExhaustedTriedAll ==
    ActiveMode =>
        /\ \A i, j \in DOMAIN remove_calls :
              remove_calls[i] = remove_calls[j] => i = j
        /\ remove_calls = visited
        /\ pc \in {"summary", "done"} /\ ~GE(space_available, space_to_free) =>
              /\ Len(remove_calls) = Len(file_info)
              /\ Range(remove_calls) = {r.f : r \in Range(file_info)}

\* an active run over two files that removed the first, did not reach the
\* goal, and ended having tried both
C16_Witness ==
    /\ ActiveMode /\ pc = "done" /\ "Unable" \in out
    /\ Len(file_info) = 2 /\ Len(remove_calls) = 2
    /\ remove_calls[1] \in removed /\ process[1].s > 0

\* ---------------------------------------------------------------- C17
\* C17: once computed, space_to_free is >= 0, for every integer -size and
\* every accepted -percentcleanup.  (Stated for runs whose probe was
\* answered.)
C17_GoalNotNegative ==
    TargetComputed /\ ~probe_failed =>
        space_to_free.whole >= 0 /\ space_to_free.frac >= 0

\* ---------------------------------------------------------------- C18
\* C18: from the start of the eviction loop on, space_available is the
\* probed value plus the sizes of the files os.remove deleted, that sum of
\* sizes is at most total_savings, which is the sum of the sizes of the
\* records visited; no step lowers space_available or total_savings; and
\* when -mode is not del space_available keeps its probed value.
C18_Accounting ==
    pc \in {"loop", "summary", "done"} =>
        /\ space_available = probed_available + FreedIn(file_info)
        /\ FreedIn(file_info) <= total_savings
        /\ total_savings = SumSizes(SubSeq(process, 1, Len(visited)))
        /\ removed \subseteq Range(visited)
        /\ ~ActiveMode => space_available = probed_available

C18_Counters ==
    /\ []C18_Accounting
    /\ [][(pc \in {"loop", "summary"}) =>
            (space_available' >= space_available /\
             total_savings' >= total_savings)]_vars

\* an active run still in its loop after one failed and one successful
\* removal of files of positive size: one byte freed, two bytes visited
C18_Witness ==
    /\ ActiveMode /\ pc \in {"loop", "summary"}
    /\ Len(remove_calls) = 2 /\ Cardinality(removed) = 1
    /\ total_savings = 2 /\ space_available = probed_available + 1

JustScanned ==
    /\ dir.known /\ scan_calls = 1
    /\ pc = "sort" \/ (pc = "exited" /\ "ErrNoFiles" \in out)

ScannedPaths == {r.f : r \in Range(file_info)}

\* ---------------------------------------------------------------- C13
\* C13: the filter is "mrfcache" plus every comma-separated entry of -ext,
\* trimmed and lowercased, and holds "mrfcache" for every -ext, also none;
\* " TXT , MrfCache " gives {"txt", "mrfcache"}; and a file whose metadata
\* can be read is collected exactly when its extension, without the dot
\* and lowercased, is in that filter.
C13_Entries ==
    IF args.ext = None \/ args.ext[1] = <<>> THEN {}
    ELSE {Lower(Strip(piece)) : piece \in Range(Split(args.ext[1], ","))}

C13_DropDot(ext) == IF ext # <<>> /\ Head(ext) = "." THEN Tail(ext) ELSE ext

C13_ExtensionFilter ==
    /\ Str_mrfcache \in extensions
    /\ extensions = {Str_mrfcache} \cup C13_Entries
    /\ args.ext = Some(Str_TxtSpaced) =>
          extensions = {<<"t","x","t">>, Str_mrfcache}
    /\ JustScanned =>
          \A p \in DOMAIN dir.files :
              dir.files[p].ok =>
                  (p \in ScannedPaths <=>
                      Lower(C13_DropDot(dir.files[p].ext)) \in
                          {Str_mrfcache} \cup C13_Entries)

\* -ext " TXT , MrfCache ": a .TXT and a .MRFCACHE file were collected, in
\* walk order
C13_Witness ==
    /\ JustScanned /\ args.ext = Some(Str_TxtSpaced)
    /\ DOMAIN dir.files = {1, 2}
    /\ dir.files[1].ext = DotTXT /\ dir.files[2].ext = DotMRFCACHE
    /\ Len(file_info) = 2 /\ file_info[1].f = 1 /\ file_info[2].f = 2

\* ---------------------------------------------------------------- C15
\* C15: a matching file whose size or access time cannot be read is left
\* out of file_info, every record in file_info is the complete record of
\* one readable matching file, and every readable matching file of the walk
\* is in file_info, in walk order, wherever the unreadable ones stand.
C15_UnreadableSkipped ==
    JustScanned =>
        /\ \A p \in DOMAIN dir.files :
              ~dir.files[p].ok => p \notin ScannedPaths
        /\ \A p \in DOMAIN dir.files :
              dir.files[p].ok /\ ExtMatches(dir.files[p].ext, extensions) =>
                  [f |-> p, s |-> dir.files[p].s, at |-> dir.files[p].at]
                      \in Range(file_info)
        /\ \A i \in DOMAIN file_info :
              /\ DOMAIN file_info[i] = {"f", "s", "at"}
              /\ file_info[i].f \in DOMAIN dir.files
              /\ dir.files[file_info[i].f].ok
        /\ \A i, j \in DOMAIN file_info : i < j => file_info[i].f < file_info[j].f

\* the first file of the walk matched and could not be read, the second
\* matched and was collected
C15_Witness ==
    /\ JustScanned /\ pc = "sort"
    /\ DOMAIN dir.files = {1, 2}
    /\ dir.files[1].ext = DotMrfcache /\ ~dir.files[1].ok
    /\ dir.files[2].ext = DotMrfcache /\ dir.files[2].ok
    /\ ScannedPaths = {2}

\* ---------------------------------------------------------------- C19
\* C19: a file whose name has no extension is never collected, for every
\* -ext list, also one with an empty entry such as a trailing comma.
\* (Stated for runs whose probe was answered.)
C19_NoExtensionNeverCollected ==
    JustScanned /\ ~probe_failed =>
        \A p \in ScannedPaths : dir.files[p].ext # NoExt

\* ---------------------------------------------------------------- C14
\* C14: in a second invocation, nothing else having changed in between,
\* the scan holds no file the first invocation deleted, holds every record
\* of the first scan that was not deleted (removal failed, or never tried
\* because the loop had stopped or the mode was not del) and nothing else,
\* and the loop starts with the oldest of them.
C14_Remaining == {r \in Range(prev.file_info) : r.f \notin prev.removed}

C14_SecondRunResumes ==
    run = 2 /\ scan_calls = 1 =>
        /\ ScannedPaths \cap prev.removed = {}
        /\ Range(file_info) = C14_Remaining
        /\ Len(file_info) = Cardinality(C14_Remaining)
        /\ pc \in {"loop", "summary", "done"} =>
              \A r \in C14_Remaining : process[1].at <= r.at
        /\ visited # <<>> =>
              \A r \in C14_Remaining : RecordOf(visited[1]).at <= r.at

\* the first invocation removed the newer of two files and failed on the
\* older one; the second found the older one alone and removed it
C14_Witness ==
    /\ run = 2 /\ pc = "done"
    /\ Len(prev.file_info) = 2 /\ Cardinality(prev.removed) = 1
    /\ \E r \in Range(prev.file_info) : \E q \in Range(prev.file_info) :
          r.f \in prev.removed /\ q.f \notin prev.removed /\ q.at < r.at
    /\ Len(file_info) = 1 /\ removed = ScannedPaths

====
